---- MODULE Spec2Model ----
(***************************************************************************)
(* Model of the tic-tac-toe relay server (src/server.js): the room         *)
(* registry, the four message handlers (create, join, move, restart) and   *)
(* the disconnect clean-up.  Every handler runs to completion, so each is  *)
(* one action.                                                             *)
(***************************************************************************)
EXTENDS Integers, Sequences, FiniteSets, TLC

(* ------------------------------ bounds --------------------------------- *)
\* number of connection identities that can be live at the same time
NumConns == 3

Conns == 1..NumConns

(* ------------------------- program constants --------------------------- *)
\* the empty slot of room.players (null)
NULL == 0
\* Array(9): number of cells of the board
BoardSize == 9
\* the largest index the move handler lets through (i > 8)
MaxIndex == 8
\* length of a room code (makeRoomCode's loop bound)
CodeLen == 5

EmptyBoard == [k \in 1..BoardSize |-> ""]

\* a turn that never passes to the other symbol
Other_m(sym) == sym

Other(sym) == IF sym = "X" THEN "O" ELSE "X"

\* WINS with the last diagonal mistyped
WINS_m ==
  << <<0,1,2>>, <<3,4,5>>, <<6,7,8>>,
     <<0,3,6>>, <<1,4,7>>, <<2,5,8>>,
     <<0,4,8>>, <<2,4,7>> >>

\* WINS without the main diagonal
WINS_noDiag ==
  << <<0,1,2>>, <<3,4,5>>, <<6,7,8>>,
     <<0,3,6>>, <<1,4,7>>, <<2,5,8>>,
     <<2,4,6>> >>

\* the eight lines, as 0-based cell indices, in the order of the source
WINS ==
  << <<0,1,2>>, <<3,4,5>>, <<6,7,8>>,
     <<0,3,6>>, <<1,4,7>>, <<2,5,8>>,
     <<0,4,8>>, <<2,4,6>> >>

\* texts of the info and error messages (the source's texts are Russian;
\* each is named here by its English meaning)
TxtHello        == "connected"
TxtCreated      == "room created"
TxtNotFound     == "room not found"
TxtFull         == "room already has two players"
TxtSecondJoined == "second player joined"
TxtNotInRoom    == "not in this room"
TxtWaiting      == "waiting for second player"
TxtNotYourTurn  == "not your turn"
TxtRestarted    == "game restarted"
TxtDisconnected == "player disconnected"

(* --------------------------- JavaScript values ------------------------- *)
\* A value of msg.index: a number is kept as twice its value, so that the
\* fractional 2.5 is x2 = 5; anything that is not a number has t # "number".
Num(x2) == [t |-> "number", x2 |-> x2]
NotNum  == [t |-> "string", x2 |-> 0]

\* room.board[i]: the cell for an integer index inside the array, and
\* "undefined" for every other property name
BoardAt(board, i) ==
  IF i.t = "number" /\ i.x2 % 2 = 0 /\ i.x2 >= 0 /\ i.x2 < 2 * BoardSize
  THEN board[(i.x2 \div 2) + 1] ELSE "undefined"

\* a room code is a sequence of characters
UpperChar(ch) ==
  CASE ch = "a" -> "A" [] ch = "b" -> "B" [] ch = "c" -> "C"
    [] ch = "d" -> "D" [] ch = "z" -> "Z" [] OTHER -> ch

RECURSIVE TrimLeft(_)
TrimLeft(s) == IF s # <<>> /\ Head(s) = " " THEN TrimLeft(Tail(s)) ELSE s

RECURSIVE TrimRight(_)
TrimRight(s) ==
  IF s # <<>> /\ s[Len(s)] = " " THEN TrimRight(SubSeq(s, 1, Len(s) - 1)) ELSE s

\* (msg.roomCode || "").toUpperCase().trim()
UpperTrim(raw) == TrimRight(TrimLeft([k \in 1..Len(raw) |-> UpperChar(raw[k])]))

\* the codes the model creates rooms under
CodeA == <<"A","B","2","C","D">>
CodeB == <<"Z","Z","2","Z","Z">>

\* roomCode fields as clients send them: lower case and padded
RawA == <<" ","a","b","2","c","d">>
RawB == <<"z","z","2","z","z"," ">>

RawCodes == {RawA, RawB, CodeA, CodeB}

\* UpperTrim on the roomCode fields of the model, computed once
NormTable == [raw \in RawCodes |-> UpperTrim(raw)]

NormCode(raw) == NormTable[raw]

VARIABLES
  rooms,    \* the Map rooms, as the sequence of its entries in insertion order
  status,   \* readyState of every connection
  prev,     \* the Map as it was when the last handler started
  last,     \* the event whose handler ran last
  out,      \* the messages that handler sent, in order
  error     \* the error the last handler raised, "none" if it returned

vars == <<rooms, status, prev, last, out, error>>

(* ------------------------------ the Map -------------------------------- *)
\* rooms.has(code)
Has(map, code) == \E k \in 1..Len(map) : map[k].code = code

\* rooms.get(code), for a code that is a key
Get(map, code) == map[CHOOSE k \in 1..Len(map) : map[k].code = code].room

\* an assignment that lands in every room of the Map
Put_m(map, code, room) ==
  [k \in 1..Len(map) |-> [code |-> map[k].code, room |-> room]]

\* the Map after a field of the room stored under code was assigned
Put(map, code, room) ==
  [k \in 1..Len(map) |-> IF map[k].code = code
                         THEN [code |-> code, room |-> room] ELSE map[k]]

\* rooms.set(code, room) for a code that is not a key
SetNew(map, code, room) == Append(map, [code |-> code, room |-> room])

\* rooms.delete(code)
Delete(map, code) == SelectSeq(map, LAMBDA e : e.code # code)

(* ---------------------------- room helpers ----------------------------- *)
Includes(room, ws) == room.players[1] = ws \/ room.players[2] = ws

\* room.players.filter(Boolean).length
PlayersCount(room) ==
  (IF room.players[1] # NULL THEN 1 ELSE 0) + (IF room.players[2] # NULL THEN 1 ELSE 0)

\* room.symbols.get(ws); "undefined" when ws is no key
SymbolGet(room, ws) ==
  IF ws \in DOMAIN room.symbols THEN room.symbols[ws] ELSE "undefined"

\* room.players.indexOf(ws) and findIndex(p => !p), 0-based, -1 if none
IndexOf(room, p) ==
  IF room.players[1] = p THEN 0 ELSE IF room.players[2] = p THEN 1 ELSE -1

(* ------------------------------ messages ------------------------------- *)
Msg(to, type, body) == [to |-> to, type |-> type, body |-> body]

\* safeSend: the message is sent only to a non-null, OPEN connection
SafeSend(st, ws, type, body) ==
  IF ws # NULL /\ st[ws] = "OPEN" THEN << Msg(ws, type, body) >> ELSE <<>>

\* broadcastRoom: safeSend to players[0], then to players[1]
BroadcastRoom(st, room, type, body) ==
  SafeSend(st, room.players[1], type, body) \o SafeSend(st, room.players[2], type, body)

RoomState(room) ==
  [board |-> room.board, turn |-> room.turn, gameOver |-> room.gameOver,
   playersCount |-> PlayersCount(room)]

Event(type, ws, code, index) == [type |-> type, ws |-> ws, code |-> code, index |-> index]

NoCode == <<>>

Init ==
  /\ rooms = <<>>
  /\ prev = <<>>
  /\ status = [c \in Conns |-> "CLOSED"]
  /\ last = Event("start", NULL, NoCode, NotNum)
  /\ out = <<>>
  /\ error = "none"

(* ------------------------------ handlers ------------------------------- *)
\* what a handler leaves behind: the Map and the messages it sent
Done(map, sent) == [rooms |-> map, out |-> sent]

Effect(r) == rooms' = r.rooms /\ out' = r.out

\* wss.on("connection"): a new connection object; an identity is used again
\* only when no room refers to it any more
Connect(ws) ==
  /\ error = "none"
  /\ status[ws] = "CLOSED"
  /\ \A k \in 1..Len(rooms) : ~Includes(rooms[k].room, ws)
  /\ status' = [status EXCEPT ![ws] = "OPEN"]
  /\ out' = SafeSend(status', ws, "hello", TxtHello)
  /\ prev' = rooms
  /\ last' = Event("connection", ws, NoCode, NotNum)
  /\ UNCHANGED rooms
  /\ error' = "none"

\* position in the Map of the first room with ws in a slot, 0 if none
FirstRoomOf(map, ws) ==
  IF \E k \in 1..Len(map) : Includes(map[k].room, ws)
  THEN CHOOSE k \in 1..Len(map) :
         /\ Includes(map[k].room, ws)
         /\ \A j \in 1..(k - 1) : ~Includes(map[j].room, ws)
  ELSE 0

\* a cleanup that also clears the board of the room it leaves
Vacated_m(room, ws) ==
  [room EXCEPT
     !.players = [room.players EXCEPT ![IndexOf(room, ws) + 1] = NULL],
     !.symbols = [c \in DOMAIN room.symbols \ {ws} |-> room.symbols[c]],
     !.board = EmptyBoard]

\* the room after players[idx] = null; symbols.delete(ws)
Vacated(room, ws) ==
  [room EXCEPT
     !.players = [room.players EXCEPT ![IndexOf(room, ws) + 1] = NULL],
     !.symbols = [c \in DOMAIN room.symbols \ {ws} |-> room.symbols[c]]]

\* the body of cleanupWs for the room found: two broadcasts, then the delete
CleanupRoom(map, st, code, room) ==
  Done(IF room.players[1] = NULL /\ room.players[2] = NULL
       THEN Delete(map, code) ELSE Put(map, code, room),
       BroadcastRoom(st, room, "info", TxtDisconnected)
       \o BroadcastRoom(st, room, "state", RoomState(room)))

CleanupAt(map, st, ws, k) ==
  IF k = 0 THEN Done(map, <<>>)
  ELSE CleanupRoom(map, st, map[k].code, Vacated(map[k].room, ws))

\* cleanupWs(ws), with readyState st
CleanupWs(map, st, ws) == CleanupAt(map, st, ws, FirstRoomOf(map, ws))

\* ws.on("close")
Close(ws) ==
  /\ error = "none"
  /\ status[ws] \in {"OPEN", "CLOSING"}
  /\ status' = [status EXCEPT ![ws] = "CLOSED"]
  /\ Effect(CleanupWs(rooms, status', ws))
  /\ prev' = rooms
  /\ last' = Event("close", ws, NoCode, NotNum)
  /\ error' = "none"

\* ws.on("error"): the socket is closing, its "close" event follows
ErrorEvent(ws) ==
  /\ error = "none"
  /\ status[ws] = "OPEN"
  /\ status' = [status EXCEPT ![ws] = "CLOSING"]
  /\ Effect(CleanupWs(rooms, status', ws))
  /\ prev' = rooms
  /\ last' = Event("error", ws, NoCode, NotNum)
  /\ error' = "none"

NewRoom(ws) ==
  [players |-> <<ws, NULL>>,
   symbols |-> [c \in {ws} |-> "X"],
   board |-> EmptyBoard,
   turn |-> "X",
   gameOver |-> FALSE]

\* msg.type === "create"; code is the result of makeRoomCode's retry loop
Create(ws, code) ==
  /\ error = "none"
  /\ status[ws] = "OPEN"
  /\ Len(code) = CodeLen
  /\ ~Has(rooms, code)
  /\ rooms' = SetNew(rooms, code, NewRoom(ws))
  /\ out' = SafeSend(status, ws, "joined", [roomCode |-> code, you |-> "X"])
            \o SafeSend(status, ws, "state", RoomState(NewRoom(ws)))
            \o SafeSend(status, ws, "info", TxtCreated)
  /\ prev' = rooms
  /\ last' = Event("create", ws, code, NotNum)
  /\ UNCHANGED status
  /\ error' = "none"

\* findIndex that answers the last slot when no slot is empty
FreeIndex_m(room) == IF room.players[1] = NULL THEN 0 ELSE 1

\* room.players.findIndex(p => !p)
FreeIndex(room) == IndexOf(room, NULL)

\* a join that gives every joiner the symbol "O", whichever slot it takes
Joined_m(room, ws, freeIndex) ==
  [room EXCEPT
     !.players = [room.players EXCEPT ![freeIndex + 1] = ws],
     !.symbols = [c \in DOMAIN room.symbols \cup {ws} |->
                    IF c = ws THEN "O" ELSE room.symbols[c]]]

\* the room after players[freeIndex] = ws; symbols.set(ws, symbol)
Joined(room, ws, freeIndex) ==
  [room EXCEPT
     !.players = [room.players EXCEPT ![freeIndex + 1] = ws],
     !.symbols = [c \in DOMAIN room.symbols \cup {ws} |->
                    IF c = ws THEN (IF freeIndex = 0 THEN "X" ELSE "O")
                    ELSE room.symbols[c]]]

\* the join that takes a slot: two sends to ws, two broadcasts
JoinAccept(map, st, ws, code, r2) ==
  Done(Put(map, code, r2),
       SafeSend(st, ws, "joined", [roomCode |-> code, you |-> SymbolGet(r2, ws)])
       \o SafeSend(st, ws, "state", RoomState(r2))
       \o BroadcastRoom(st, r2, "info", TxtSecondJoined)
       \o BroadcastRoom(st, r2, "state", RoomState(r2)))

\* the join handler without the test for a connection that is already in
JoinRoom_m(map, st, ws, code, room) ==
  IF FreeIndex(room) = -1
  THEN Done(map, SafeSend(st, ws, "error", TxtFull))
  ELSE JoinAccept(map, st, ws, code, Joined(room, ws, FreeIndex(room)))

JoinRoom(map, st, ws, code, room) ==
  IF Includes(room, ws)
  THEN Done(map,
            SafeSend(st, ws, "joined", [roomCode |-> code, you |-> SymbolGet(room, ws)])
            \o SafeSend(st, ws, "state", RoomState(room)))
  ELSE IF FreeIndex(room) = -1
  THEN Done(map, SafeSend(st, ws, "error", TxtFull))
  ELSE JoinAccept(map, st, ws, code, Joined(room, ws, FreeIndex(room)))

\* the result of the join handler
JoinCode(map, st, ws, code) ==
  IF ~Has(map, code)
  THEN Done(map, SafeSend(st, ws, "error", TxtNotFound))
  ELSE JoinRoom(map, st, ws, code, Get(map, code))

\* msg.type === "join"
Join(ws, raw) ==
  /\ error = "none"
  /\ status[ws] = "OPEN"
  /\ Effect(JoinCode(rooms, status, ws, NormCode(raw)))
  /\ prev' = rooms
  /\ last' = Event("join", ws, raw, NotNum)
  /\ UNCHANGED status
  /\ error' = "none"

\* a line of three equal, non-empty cells
LineWins(board, line) ==
  /\ board[line[1] + 1] # ""
  /\ board[line[1] + 1] = board[line[2] + 1]
  /\ board[line[1] + 1] = board[line[3] + 1]

\* the for loop over WINS: the symbol of the first winning line, or "null"
Winner(board) ==
  IF \E n \in 1..Len(WINS) : LineWins(board, WINS[n])
  THEN LET n == CHOOSE m \in 1..Len(WINS) :
                  /\ LineWins(board, WINS[m])
                  /\ \A j \in 1..(m - 1) : ~LineWins(board, WINS[j])
       IN board[WINS[n][1] + 1]
  ELSE "null"

\* a draw test that stops one cell short of the board
Draw_m(board, winner) ==
  winner = "null" /\ \A k \in 1..(BoardSize - 1) : board[k] # ""

\* !winner && room.board.every(v => v !== "")
Draw(board, winner) == winner = "null" /\ \A k \in 1..BoardSize : board[k] # ""

\* the end of the move handler with the turn passed on a finished game too
MoveOutcome_m(map, st, code, room, winner) ==
  IF winner # "null" \/ Draw(room.board, winner)
  THEN Done(Put(map, code, [room EXCEPT !.gameOver = TRUE, !.turn = Other(room.turn)]),
            BroadcastRoom(st, room, "gameover", IF winner # "null" THEN winner ELSE "D")
            \o BroadcastRoom(st, room, "state",
                 RoomState([room EXCEPT !.gameOver = TRUE, !.turn = Other(room.turn)])))
  ELSE Done(Put(map, code, [room EXCEPT !.turn = Other(room.turn)]),
            BroadcastRoom(st, room, "state",
                          RoomState([room EXCEPT !.turn = Other(room.turn)])))

\* the end of the move handler, from the winner on
MoveOutcome(map, st, code, room, winner) ==
  IF winner # "null" \/ Draw(room.board, winner)
  THEN Done(Put(map, code, [room EXCEPT !.gameOver = TRUE]),
            BroadcastRoom(st, room, "gameover", IF winner # "null" THEN winner ELSE "D")
            \o BroadcastRoom(st, room, "state",
                             RoomState([room EXCEPT !.gameOver = TRUE])))
  ELSE Done(Put(map, code, [room EXCEPT !.turn = Other(room.turn)]),
            BroadcastRoom(st, room, "state",
                          RoomState([room EXCEPT !.turn = Other(room.turn)])))

\* room.board[i] = you, then the search for a winner
MoveAccept(map, st, code, room) == MoveOutcome(map, st, code, room, Winner(room.board))

\* the checks of the move handler without the test of the cell
MoveRoom_m(map, st, ws, code, room, you, i) ==
  IF you = "undefined"
  THEN Done(map, SafeSend(st, ws, "error", TxtNotInRoom))
  ELSE IF room.gameOver
  THEN Done(map, <<>>)
  ELSE IF i.t # "number" \/ i.x2 < 0 \/ i.x2 > 2 * MaxIndex
  THEN Done(map, <<>>)
  ELSE IF PlayersCount(room) < 2
  THEN Done(map, SafeSend(st, ws, "error", TxtWaiting))
  ELSE IF room.turn # you
  THEN Done(map, SafeSend(st, ws, "error", TxtNotYourTurn))
  ELSE IF i.x2 % 2 # 0
  THEN Done(map, <<>>)
  ELSE MoveAccept(map, st, code,
                  [room EXCEPT !.board[(i.x2 \div 2) + 1] = you])

\* the checks of the move handler without the test of a finished game
MoveRoom_over(map, st, ws, code, room, you, i) ==
  IF you = "undefined"
  THEN Done(map, SafeSend(st, ws, "error", TxtNotInRoom))
  ELSE IF i.t # "number" \/ i.x2 < 0 \/ i.x2 > 2 * MaxIndex
  THEN Done(map, <<>>)
  ELSE IF PlayersCount(room) < 2
  THEN Done(map, SafeSend(st, ws, "error", TxtWaiting))
  ELSE IF room.turn # you
  THEN Done(map, SafeSend(st, ws, "error", TxtNotYourTurn))
  ELSE IF BoardAt(room.board, i) # ""
  THEN Done(map, <<>>)
  ELSE MoveAccept(map, st, code,
                  [room EXCEPT !.board[(i.x2 \div 2) + 1] = you])

\* the checks of the move handler, in the order of the source
MoveRoom(map, st, ws, code, room, you, i) ==
  IF you = "undefined"
  THEN Done(map, SafeSend(st, ws, "error", TxtNotInRoom))
  ELSE IF room.gameOver
  THEN Done(map, <<>>)
  ELSE IF i.t # "number" \/ i.x2 < 0 \/ i.x2 > 2 * MaxIndex
  THEN Done(map, <<>>)
  ELSE IF PlayersCount(room) < 2
  THEN Done(map, SafeSend(st, ws, "error", TxtWaiting))
  ELSE IF room.turn # you
  THEN Done(map, SafeSend(st, ws, "error", TxtNotYourTurn))
  ELSE IF BoardAt(room.board, i) # ""
  THEN Done(map, <<>>)
  ELSE MoveAccept(map, st, code,
                  [room EXCEPT !.board[(i.x2 \div 2) + 1] = you])

\* the result of the move handler
MoveCode(map, st, ws, code, i) ==
  IF ~Has(map, code)
  THEN Done(map, <<>>)
  ELSE MoveRoom(map, st, ws, code, Get(map, code), SymbolGet(Get(map, code), ws), i)

\* msg.type === "move"
Move(ws, raw, i) ==
  /\ error = "none"
  /\ status[ws] = "OPEN"
  /\ Effect(MoveCode(rooms, status, ws, NormCode(raw), i))
  /\ prev' = rooms
  /\ last' = Event("move", ws, raw, i)
  /\ UNCHANGED status
  /\ error' = "none"

\* the reset of the restart handler and its two broadcasts
RestartAccept(map, st, code, r2) ==
  Done(Put(map, code, r2),
       BroadcastRoom(st, r2, "info", TxtRestarted)
       \o BroadcastRoom(st, r2, "state", RoomState(r2)))

\* the restart handler that leaves the turn as it is
RestartRoom_m(map, st, ws, code, room) ==
  IF SymbolGet(room, ws) = "undefined"
  THEN Done(map, <<>>)
  ELSE RestartAccept(map, st, code,
         [room EXCEPT !.board = EmptyBoard, !.gameOver = FALSE])

RestartRoom(map, st, ws, code, room) ==
  IF SymbolGet(room, ws) = "undefined"
  THEN Done(map, <<>>)
  ELSE RestartAccept(map, st, code,
         [room EXCEPT !.board = EmptyBoard, !.turn = "X", !.gameOver = FALSE])

\* the result of the restart handler
RestartCode(map, st, ws, code) ==
  IF ~Has(map, code)
  THEN Done(map, <<>>)
  ELSE RestartRoom(map, st, ws, code, Get(map, code))

\* msg.type === "restart"
Restart(ws, raw) ==
  /\ error = "none"
  /\ status[ws] = "OPEN"
  /\ Effect(RestartCode(rooms, status, ws, NormCode(raw)))
  /\ prev' = rooms
  /\ last' = Event("restart", ws, raw, NotNum)
  /\ UNCHANGED status
  /\ error' = "none"

(* ---- ws.on("message") for a message of any shape: JSON.parse, msg.type --- *)
\* values of msg.roomCode: absent, a number (Num), a string of characters
JsUndefined == [t |-> "undefined"]

Str(chars) == [t |-> "string", s |-> chars]

\* the values JavaScript's || treats as false
Falsy(v) ==
  \/ v.t = "undefined"
  \/ v.t = "number" /\ v.x2 = 0
  \/ v.t = "string" /\ v.s = <<>>

\* (msg.roomCode || "")
OrEmpty(v) == IF Falsy(v) THEN Str(<<>>) ELSE v

\* String.prototype.toUpperCase().trim() of a string
Norm(chars) == IF chars \in RawCodes THEN NormCode(chars) ELSE UpperTrim(chars)

\* the handler returned / an exception left the handler
Returned(r) == [rooms |-> r.rooms, out |-> r.out, error |-> "none"]

Threw(map) == [rooms |-> map, out |-> <<>>, error |-> "TypeError"]

\* (msg.roomCode || "").toUpperCase().trim(), then the handler of the type;
\* only a string has toUpperCase, calling it on a number is a TypeError
WithCode(map, st, ws, m, v) ==
  IF v.t # "string" THEN Threw(map)
  ELSE IF m.type = "join"    THEN Returned(JoinCode(map, st, ws, Norm(v.s)))
  ELSE IF m.type = "move"    THEN Returned(MoveCode(map, st, ws, Norm(v.s), m.index))
  ELSE Returned(RestartCode(map, st, ws, Norm(v.s)))

\* the body of the "message" listener: text that is not JSON is dropped by
\* the catch; msg.type of null is a TypeError; a number has no type
OnMessage(map, st, ws, m) ==
  IF m.json = "invalid" THEN Returned(Done(map, <<>>))
  ELSE IF m.json = "null" THEN Threw(map)
  ELSE IF m.json # "object" THEN Returned(Done(map, <<>>))
  ELSE IF m.type \in {"join", "move", "restart"}
  THEN WithCode(map, st, ws, m, OrEmpty(m.roomCode))
  ELSE Returned(Done(map, <<>>))

\* ws.on("message") with the text of the message as it arrived; nothing
\* catches an exception of the listener, the process ends with it
Message(ws, m) ==
  /\ error = "none"
  /\ status[ws] = "OPEN"
  /\ rooms' = OnMessage(rooms, status, ws, m).rooms
  /\ out' = OnMessage(rooms, status, ws, m).out
  /\ error' = OnMessage(rooms, status, ws, m).error
  /\ prev' = rooms
  /\ last' = [type |-> "message", ws |-> ws, msg |-> m]
  /\ UNCHANGED status

(* ------------------------- inputs of the model ------------------------- *)
\* indices that are not cells: not a number, below 0, above 8, fractional
BadIndices == {NotNum, Num(-2), Num(18), Num(5)}

\* the cells of the first two rows, less one: enough for a win
FewCells == {Num(2 * n) : n \in 0..4}

AllCells == {Num(2 * n) : n \in 0..MaxIndex}

MoveInputs == FewCells \cup BadIndices

\* One room code, five cells and every kind of bad index.  A request that
\* names the code while no room has it is a request for an unknown room, and
\* a create needs the code to be free, as makeRoomCode's loop does.
Next ==
  \/ \E ws \in Conns : Connect(ws)
  \/ \E ws \in Conns : Close(ws)
  \/ \E ws \in Conns : Create(ws, CodeA)
  \/ \E ws \in Conns : Join(ws, RawA)
  \/ \E ws \in Conns, i \in MoveInputs : Move(ws, RawA, i)
  \/ \E ws \in Conns : Restart(ws, RawA)

Spec == Init /\ [][Next]_vars

\* A whole game on all nine cells: connection 1 creates the room, connection
\* 2 joins it, both move and restart.
NextGame ==
  \/ \E ws \in {1, 2} : Connect(ws)
  \/ Create(1, CodeA)
  \/ Join(2, RawA)
  \/ \E ws \in {1, 2}, i \in AllCells : Move(ws, RawA, i)
  \/ \E ws \in {1, 2} : Restart(ws, RawA)

SpecGame == Init /\ [][NextGame]_vars

\* The whole game again, with the second player leaving and coming back:
\* connection 2 closes, connects and joins at any point of the game.
NextPlay ==
  \/ \E ws \in {1, 2} : Connect(ws)
  \/ Close(2)
  \/ Create(1, CodeA)
  \/ Join(2, RawA)
  \/ \E ws \in {1, 2}, i \in AllCells : Move(ws, RawA, i)
  \/ \E ws \in {1, 2} : Restart(ws, RawA)

SpecPlay == Init /\ [][NextPlay]_vars

\* Two room codes, so that a connection can be in two rooms; with the
\* "error" event that precedes "close" on a failed socket.
NextRooms ==
  \/ \E ws \in Conns : Connect(ws)
  \/ \E ws \in Conns : Close(ws)
  \/ \E ws \in Conns : ErrorEvent(ws)
  \/ \E ws \in Conns, code \in {CodeA, CodeB} : Create(ws, code)
  \/ \E ws \in Conns, raw \in {RawA, RawB} : Join(ws, raw)
  \/ \E ws \in Conns, raw \in {RawA, RawB} : Move(ws, raw, Num(0))
  \/ \E ws \in Conns, raw \in {RawA, RawB} : Restart(ws, raw)

SpecRooms == Init /\ [][NextRooms]_vars

\* Messages of every shape: text that is not JSON, the JSON values null and
\* 7, and objects of every type whose roomCode is absent, 0, 5 or a string.
RoomCodeValues == {JsUndefined, Num(0), Num(10), Str(RawA)}

RawMessages ==
  {[json |-> j] : j \in {"invalid", "null", "number"}} \cup
  {[json |-> "object", type |-> ty, roomCode |-> v, index |-> Num(0)] :
     ty \in {"join", "move", "restart", "ping"}, v \in RoomCodeValues}

NextRaw ==
  \/ \E ws \in Conns : Connect(ws)
  \/ \E ws \in Conns : Close(ws)
  \/ \E ws \in Conns : Create(ws, CodeA)
  \/ \E ws \in Conns, m \in RawMessages : Message(ws, m)

SpecRaw == Init /\ [][NextRaw]_vars

(* ======================= properties of the server ====================== *)
\* the room code the last request named, as the handler looks it up
Target == NormCode(last.code)

\* the last request's room as it was before the handler ran, and as it is
Before == Get(prev, Target)
After == Get(rooms, Target)

\* an integer in 0..8
IsCellIndex(i) == i.t = "number" /\ i.x2 % 2 = 0 /\ i.x2 \div 2 \in 0..8

Cell(i) == (i.x2 \div 2) + 1

BothSlots(room) == room.players[1] # NULL /\ room.players[2] # NULL

Holds(room, ws) == ws \in DOMAIN room.symbols

\* the seven conditions of a move, on the state before the handler
MoveConds ==
  /\ Has(prev, Target)
  /\ Holds(Before, last.ws)
  /\ ~Before.gameOver
  /\ IsCellIndex(last.index)
  /\ BothSlots(Before)
  /\ Before.symbols[last.ws] = Before.turn
  /\ Before.board[Cell(last.index)] = ""

\* the last handler was a move and it wrote a cell
Accepted ==
  /\ last.type = "move"
  /\ Has(prev, Target) /\ Has(rooms, Target)
  /\ After.board # Before.board

\* the 3 rows, 3 columns and 2 diagonals, as sets of 0-based cells
Lines ==
  {{3 * r, 3 * r + 1, 3 * r + 2} : r \in 0..2}
    \cup {{c, c + 3, c + 6} : c \in 0..2}
    \cup {{0, 4, 8}, {2, 4, 6}}

LineOf(board, sym) == \E L \in Lines : \A c \in L : board[c + 1] = sym

HasLine(board) == LineOf(board, "X") \/ LineOf(board, "O")

Full(board) == \A c \in 1..9 : board[c] # ""

Marks(board) == Cardinality({c \in 1..9 : board[c] # ""})

\* the messages of one type among those the last handler sent
Sent(type) == SelectSeq(out, LAMBDA m : m.type = type)

\* the occupants of a room that are open, in slot order
Recipients(room) ==
  SelectSeq(room.players, LAMBDA p : p # NULL /\ status[p] = "OPEN")

\* one message to every open occupant
ToAll(room, type, body) ==
  [k \in 1..Len(Recipients(room)) |-> Msg(Recipients(room)[k], type, body)]

(* ------------------------------- C1 ------------------------------------ *)
\* C1: a move writes the requester's symbol into board[index] if and only if
\* the seven conditions hold together; when any of them fails the Map (board,
\* turn, gameOver, slots and symbols of every room) is unchanged.
C1_MoveAcceptedIff ==
  last.type = "move" =>
    IF MoveConds
    THEN /\ Has(rooms, Target)
         /\ After.board =
              [Before.board EXCEPT ![Cell(last.index)] = Before.symbols[last.ws]]
         /\ After.players = Before.players
         /\ After.symbols = Before.symbols
    ELSE rooms = prev

\* an accepted move
C1_Witness == last.type = "move" /\ MoveConds /\ Accepted

\* a move refused for one reason only: the cell is taken
C1_WitnessRejected ==
  /\ last.type = "move" /\ Has(prev, Target) /\ Holds(Before, last.ws)
  /\ ~Before.gameOver /\ IsCellIndex(last.index) /\ BothSlots(Before)
  /\ Before.symbols[last.ws] = Before.turn
  /\ Before.board[Cell(last.index)] # ""

(* ------------------------------- C2 ------------------------------------ *)
\* C2: after an accepted move exactly one of the two happened: the turn
\* passed to the other symbol, or gameOver became true with the turn kept.
C2_TurnXorGameOver ==
  Accepted =>
    /\ ~Before.gameOver
    /\ \/ After.turn = Other(Before.turn) /\ ~After.gameOver
       \/ After.turn = Before.turn /\ After.gameOver

\* an accepted move that ended the game in a draw
C2_Witness == Accepted /\ After.gameOver /\ ~HasLine(After.board)

(* ------------------------------- C3 ------------------------------------ *)
\* C3: an accepted move broadcasts "gameover" with the mover's symbol exactly
\* when the board then has one of the 8 lines, with "D" exactly when it has
\* no line and is full, and sends no "gameover" otherwise.
C3_GameOverMessage ==
  Accepted =>
    Sent("gameover") =
      IF HasLine(After.board)
      THEN ToAll(After, "gameover", Before.symbols[last.ws])
      ELSE IF Full(After.board)
      THEN ToAll(After, "gameover", "D")
      ELSE <<>>

\* a ninth move that completes a line, announced to both players as a win
C3_Witness ==
  /\ Accepted /\ Full(After.board) /\ HasLine(After.board)
  /\ Len(Sent("gameover")) = 2

(* ------------------------------- C4 ------------------------------------ *)
\* the moves of the claim, in order: cells of X:0 O:1 X:4 O:2 X:8 O:5 X:3 O:6 X:7
ListedCells == <<0, 1, 4, 2, 8, 5, 3, 6, 7>>

\* a filling without a line: X:0 O:1 X:2 O:4 X:3 O:5 X:7 O:6 X:8
DrawCells == <<0, 1, 2, 4, 3, 5, 7, 6, 8>>

Mover(k) == IF k % 2 = 1 THEN "X" ELSE "O"

\* the board after the first k moves of a script played on a fresh board
Played(script, k) ==
  [c \in 1..9 |->
     IF \E j \in 1..k : script[j] + 1 = c
     THEN Mover(CHOOSE j \in 1..k : script[j] + 1 = c) ELSE ""]

\* the last request was move k of the script, made by the holder of the
\* symbol, in a two-player room that stood where the first k-1 moves lead
IsStep(script, k) ==
  /\ last.type = "move" /\ Has(prev, Target)
  /\ BothSlots(Before)
  /\ Before.board = Played(script, k - 1)
  /\ ~Before.gameOver
  /\ Before.turn = Mover(k)
  /\ Holds(Before, last.ws) /\ Before.symbols[last.ws] = Mover(k)
  /\ last.index = Num(2 * script[k])

\* move k was accepted and the game goes on
StepGoesOn(script, k) ==
  /\ After.board = Played(script, k)
  /\ After.players = Before.players
  /\ ~After.gameOver
  /\ After.turn = Mover(k + 1)
  /\ Sent("gameover") = <<>>

\* C4 as stated: all nine listed moves are accepted, the board fills with no
\* line and the ninth move ends the game with the draw marker.
C4_ListedIsDraw ==
  \A k \in 1..9 :
    IsStep(ListedCells, k) =>
      IF k < 9 THEN StepGoesOn(ListedCells, k)
      ELSE /\ After.board = Played(ListedCells, 9)
           /\ ~HasLine(After.board)
           /\ After.gameOver
           /\ Sent("gameover") = ToAll(After, "gameover", "D")

\* C4 amended: the first four listed moves are accepted and the game goes on;
\* the fifth, X:8, is accepted and completes the diagonal 0,4,8, so the game
\* ends there with winner X; the four remaining listed moves are then ignored.
\* A filling without a line (DrawCells) is accepted move by move and its
\* ninth move ends the game with the draw marker.
C4_ListedEndsAtFive ==
  /\ \A k \in 1..5 :
       IsStep(ListedCells, k) =>
         IF k < 5 THEN StepGoesOn(ListedCells, k)
         ELSE /\ After.board = Played(ListedCells, 5)
              /\ After.gameOver
              /\ After.turn = "X"
              /\ Sent("gameover") = ToAll(After, "gameover", "X")
  /\ \A k \in 6..9 :
       ( /\ last.type = "move" /\ Has(prev, Target)
         /\ Before.board = Played(ListedCells, 5) /\ Before.gameOver
         /\ Holds(Before, last.ws)
         /\ last.index = Num(2 * ListedCells[k]) )
       => rooms = prev /\ out = <<>>
  /\ \A k \in 1..9 :
       IsStep(DrawCells, k) =>
         IF k < 9 THEN StepGoesOn(DrawCells, k)
         ELSE /\ After.board = Played(DrawCells, 9)
              /\ ~HasLine(After.board)
              /\ After.gameOver
              /\ Sent("gameover") = ToAll(After, "gameover", "D")

\* the fifth listed move has just ended the game
C4_Witness ==
  /\ IsStep(ListedCells, 5)
  /\ After.gameOver /\ Marks(After.board) = 5
  /\ Len(Sent("gameover")) = 2

(* ------------------------------- C5 ------------------------------------ *)
\* every room but the one the last request named is as it was
OthersUnchanged ==
  /\ Len(rooms) = Len(prev)
  /\ \A k \in 1..Len(prev) :
       /\ rooms[k].code = prev[k].code
       /\ prev[k].code # Target => rooms[k] = prev[k]

\* C5: a restart by a connection with a symbol in the room sets the board to
\* 9 empty cells, turn to X and gameOver to false and keeps slots and symbols;
\* a restart for an unknown room or by a connection without a symbol changes
\* nothing and sends nothing.
C5_Restart ==
  last.type = "restart" =>
    IF Has(prev, Target) /\ Holds(Before, last.ws)
    THEN /\ OthersUnchanged
         /\ After.board = [c \in 1..9 |-> ""]
         /\ After.turn = "X"
         /\ After.gameOver = FALSE
         /\ After.players = Before.players
         /\ After.symbols = Before.symbols
    ELSE rooms = prev /\ out = <<>>

\* a restart of a finished game by the only occupant left
C5_Witness ==
  /\ last.type = "restart" /\ Has(prev, Target) /\ Holds(Before, last.ws)
  /\ Before.gameOver /\ ~BothSlots(Before)
  /\ Marks(After.board) = 0

(* ------------------------------- C6 ------------------------------------ *)
Occupied(room) == Cardinality({s \in 1..2 : room.players[s] # NULL})

\* C6: every room has an occupied slot; a disconnect of one of two occupants
\* leaves the room with exactly one empty slot, a disconnect of the last
\* occupant removes the room in the same step; no request removes a room.
C6_RoomLifecycle ==
  /\ \A k \in 1..Len(rooms) : Occupied(rooms[k].room) >= 1
  /\ last.type \in {"close", "error"} =>
       \A k \in 1..Len(prev) :
         Includes(prev[k].room, last.ws) =>
           IF Occupied(prev[k].room) = 1
           THEN ~Has(rooms, prev[k].code)
           ELSE /\ Has(rooms, prev[k].code)
                /\ Occupied(Get(rooms, prev[k].code)) = 1
                /\ ~Includes(Get(rooms, prev[k].code), last.ws)
  /\ last.type \in {"create", "join", "move", "restart"} =>
       \A k \in 1..Len(prev) : Has(rooms, prev[k].code)

(* ------------------------------- C7 ------------------------------------ *)
\* the "state" message of a room
ViewOf(room) ==
  [board |-> room.board, turn |-> room.turn, gameOver |-> room.gameOver,
   playersCount |-> Occupied(room)]

\* C7: a join by a connection that is already in a slot of the room changes
\* nothing; the connection is in exactly one slot, it is sent "joined" with
\* the symbol it had and the state, and the other occupant is sent nothing.
C7_JoinAgain ==
  (last.type = "join" /\ Has(prev, Target) /\ Includes(Before, last.ws)) =>
    /\ rooms = prev
    /\ Cardinality({s \in 1..2 : After.players[s] = last.ws}) = 1
    /\ out = << Msg(last.ws, "joined",
                    [roomCode |-> Target, you |-> Before.symbols[last.ws]]),
                Msg(last.ws, "state", ViewOf(Before)) >>

\* an occupant joins again while the other slot is empty
C7_Witness ==
  /\ last.type = "join" /\ Has(prev, Target) /\ Includes(Before, last.ws)
  /\ ~BothSlots(Before)
  /\ Len(out) = 2

(* ------------------------------- C8 ------------------------------------ *)
\* C8: a room never has more than 2 occupied slots and a join never takes a
\* slot from its occupant; a join by a non-occupant to a room with both slots
\* occupied sends the room-full error to the requester only and changes
\* nothing.
C8_JoinNeverEvicts ==
  /\ \A k \in 1..Len(rooms) :
       DOMAIN rooms[k].room.players = 1..2 /\ Occupied(rooms[k].room) <= 2
  /\ (last.type = "join" /\ Has(prev, Target)) =>
       /\ Has(rooms, Target)
       /\ \A s \in 1..2 :
            Before.players[s] # NULL => After.players[s] = Before.players[s]
  /\ (last.type = "join" /\ Has(prev, Target)
        /\ ~Includes(Before, last.ws) /\ BothSlots(Before)) =>
       /\ rooms = prev
       /\ out = << Msg(last.ws, "error", TxtFull) >>

\* a third connection was refused by a room with two players
C8_Witness ==
  /\ last.type = "join" /\ Has(prev, Target)
  /\ ~Includes(Before, last.ws) /\ BothSlots(Before)
  /\ Len(out) = 1

(* ------------------------------- C9 ------------------------------------ *)
\* the answer the ordered checks of the claim give to a refused move
RefusalOf(room, ws, i) ==
  IF ~Holds(room, ws) THEN << Msg(ws, "error", TxtNotInRoom) >>
  ELSE IF room.gameOver THEN <<>>
  ELSE IF ~IsCellIndex(i) THEN <<>>
  ELSE IF ~BothSlots(room) THEN << Msg(ws, "error", TxtWaiting) >>
  ELSE IF room.symbols[ws] # room.turn THEN << Msg(ws, "error", TxtNotYourTurn) >>
  ELSE <<>>

\* C9: the response to a refused move is that of the first failing check in
\* the order room exists, requester has a symbol, game not over, index valid,
\* both slots occupied, requester's turn, cell empty; it goes to the requester.
C9_FirstFailingCheck ==
  (last.type = "move" /\ ~MoveConds) =>
    out = IF ~Has(prev, Target) THEN <<>>
          ELSE RefusalOf(Before, last.ws, last.index)

(* ------------------------------- C10 ----------------------------------- *)
\* C10: a move by an occupant of a live, unfinished room with an index that
\* is not an integer in 0..8 changes nothing and sends nothing.
C10_BadIndexSilent ==
  ( /\ last.type = "move" /\ Has(prev, Target)
    /\ Holds(Before, last.ws) /\ ~Before.gameOver
    /\ ~IsCellIndex(last.index) )
  => rooms = prev /\ out = <<>>

\* the slots of all rooms of the registry that hold ws
SlotsOf(map, ws) ==
  {p \in (1..Len(map)) \X {1, 2} : map[p[1]].room.players[p[2]] = ws}

\* C11: in every reachable state each connection is in at most one slot,
\* counted over the two slots of all the rooms of the registry.
C11_OneSlotPerConnection ==
  \A ws \in Conns : Cardinality(SlotsOf(rooms, ws)) <= 1

\* the shapes of message that ask for a join, a move or a restart
IsIntent(m) == m.json = "object" /\ m.type \in {"join", "move", "restart"}

\* C12: no message is fatal: the handler of every message returns without
\* raising an error; text that is not JSON changes nothing and gets no
\* reply; a message that changes the registry is a join, move or restart.
C12_NoFatalMessage ==
  last.type = "message" =>
    /\ error = "none"
    /\ last.msg.json = "invalid" => rooms = prev /\ out = <<>>
    /\ ~IsIntent(last.msg) => rooms = prev

\* the connections in the two slots of a room
Occupants(room) == {room.players[1], room.players[2]} \ {NULL}

\* C13: in every room of the registry the keys of the symbol map are
\* exactly the connections in the two slots, the connection in slot 0 has
\* "X" and the connection in slot 1 has "O".
C13_SymbolsMatchSlots ==
  \A k \in 1..Len(rooms) :
    /\ DOMAIN rooms[k].room.symbols = Occupants(rooms[k].room)
    /\ rooms[k].room.players[1] # NULL =>
         rooms[k].room.symbols[rooms[k].room.players[1]] = "X"
    /\ rooms[k].room.players[2] # NULL =>
         rooms[k].room.symbols[rooms[k].room.players[2]] = "O"

\* a connection joined into the vacated slot 0 of a room whose slot 1 is
\* held, and has "X"
C13_Witness ==
  /\ last.type = "join"
  /\ Has(prev, Target) /\ Has(rooms, Target)
  /\ Before.players[1] = NULL /\ Before.players[2] # NULL
  /\ After.players[1] = last.ws
  /\ After.symbols[last.ws] = "X"

\* C14: in every room of the registry gameOver is true exactly when the
\* board has a line of three equal marks or all nine cells are filled.
C14_GameOverIffLineOrFull ==
  \A k \in 1..Len(rooms) :
    rooms[k].room.gameOver <=>
      (HasLine(rooms[k].room.board) \/ Full(rooms[k].room.board))

\* the ninth mark of a game completed a line: the board is full, has a
\* line, and the game is over
C14_Witness ==
  /\ Accepted
  /\ Full(After.board) /\ HasLine(After.board)
  /\ After.gameOver

\* board, turn and gameOver of a room
GameOf(room) == [board |-> room.board, turn |-> room.turn, gameOver |-> room.gameOver]

\* C15: a disconnect and a join change no room's board, turn or gameOver;
\* a join that takes a slot takes the first empty one with that slot's
\* symbol; and the next accepted move is by the symbol whose turn it was,
\* into the board as it was.
C15_DisconnectJoinKeepGame ==
  /\ last.type \in {"close", "error", "join"} =>
       \A k \in 1..Len(rooms) :
         Has(prev, rooms[k].code) =>
           GameOf(rooms[k].room) = GameOf(Get(prev, rooms[k].code))
  /\ (last.type = "join" /\ Has(prev, Target) /\ ~Includes(Before, last.ws)
      /\ Includes(After, last.ws)) =>
       /\ After.players = [Before.players EXCEPT ![FreeIndex(Before) + 1] = last.ws]
       /\ FreeIndex(Before) \in {0, 1}
       /\ After.symbols[last.ws] = (IF FreeIndex(Before) = 0 THEN "X" ELSE "O")
  /\ Accepted =>
       /\ Before.symbols[last.ws] = Before.turn
       /\ After.board = [Before.board EXCEPT ![Cell(last.index)] = Before.turn]

\* a connection joined a game in progress (marks on the board, not over)
\* from which a player had disconnected, into slot 0 as "X"
C15_Witness ==
  /\ last.type = "join"
  /\ Has(prev, Target)
  /\ ~Includes(Before, last.ws) /\ Includes(After, last.ws)
  /\ Marks(Before.board) >= 2 /\ ~Before.gameOver
  /\ After.players[1] = last.ws /\ After.players[2] # NULL
  /\ After.turn = "O"

\* the positions in out of the messages of a type
PositionsOf(type) == {k \in 1..Len(out) : out[k].type = type}

\* C16: "gameover" is broadcast at most once in a game.  Only the handler
\* of the move that turns gameOver from false to true sends it, once to
\* each open occupant and before every "state" message of that handler,
\* which all say gameOver; a move into a finished game changes nothing and
\* sends no "gameover"; and a finished game stays finished, whoever
\* disconnects or joins, until a restart of that room.
C16_GameOverOnce ==
  /\ PositionsOf("gameover") # {} =>
       /\ Accepted
       /\ ~Before.gameOver /\ After.gameOver
       /\ \A j, k \in PositionsOf("gameover") : out[j].to = out[k].to => j = k
       /\ \A j \in PositionsOf("gameover"), k \in PositionsOf("state") : j < k
       /\ \A k \in PositionsOf("state") : out[k].body.gameOver
  /\ (Accepted /\ After.gameOver) =>
       {out[k].to : k \in PositionsOf("gameover")} =
         {p \in Occupants(After) : status[p] = "OPEN"}
  /\ (last.type = "move" /\ Has(prev, Target) /\ Before.gameOver) =>
       rooms = prev /\ PositionsOf("gameover") = {}
  /\ \A k \in 1..Len(rooms) :
       (Has(prev, rooms[k].code) /\ Get(prev, rooms[k].code).gameOver) =>
         \/ rooms[k].room.gameOver
         \/ last.type = "restart" /\ Target = rooms[k].code

\* a move that meets every other condition (the mover's turn, an empty
\* cell, both slots held) is refused because the game has ended by a line
C16_Witness ==
  /\ last.type = "move"
  /\ Has(prev, Target)
  /\ Before.gameOver /\ ~Full(Before.board)
  /\ Holds(Before, last.ws) /\ BothSlots(Before)
  /\ Before.symbols[last.ws] = Before.turn
  /\ IsCellIndex(last.index)
  /\ Before.board[Cell(last.index)] = ""
  /\ rooms = prev /\ out = <<>>

\* the positions in out of the "state" messages sent to a connection
StatesTo(c) == {k \in 1..Len(out) : out[k].to = c /\ out[k].type = "state"}

\* the last "state" message a connection has received is the last one this
\* handler sent to it; when the handler sent it none, it is the one it had
\* before, which showed the room if the connection was in the room then
ShownTheRoom(code, room, c) ==
  IF StatesTo(c) # {}
  THEN out[CHOOSE k \in StatesTo(c) : \A j \in StatesTo(c) : j <= k].body = ViewOf(room)
  ELSE /\ Has(prev, code)
       /\ Includes(Get(prev, code), c)
       /\ ViewOf(Get(prev, code)) = ViewOf(room)

\* C17: after every handler, the last "state" message received by each
\* open connection in a slot of a room shows that room's board, turn,
\* gameOver and number of occupied slots.
C17_ViewConsistency ==
  \A k \in 1..Len(rooms) :
    \A c \in Occupants(rooms[k].room) :
      status[c] = "OPEN" => ShownTheRoom(rooms[k].code, rooms[k].room, c)

\* the number of cells of a board that hold a symbol
Count(board, sym) == Cardinality({c \in 1..BoardSize : board[c] = sym})

\* C18: in every room each cell is "", "X" or "O"; the board has as many
\* "X" as "O" or one more; while the game is not over the turn is "X"
\* exactly when the counts are equal; and only a restart clears or changes
\* a filled cell.
C18_BoardWellFormed ==
  /\ \A k \in 1..Len(rooms) :
       /\ \A c \in 1..BoardSize : rooms[k].room.board[c] \in {"", "X", "O"}
       /\ Count(rooms[k].room.board, "X") - Count(rooms[k].room.board, "O") \in {0, 1}
       /\ ~rooms[k].room.gameOver =>
            (rooms[k].room.turn = "X" <=>
               Count(rooms[k].room.board, "X") = Count(rooms[k].room.board, "O"))
  /\ \A k \in 1..Len(rooms) :
       (Has(prev, rooms[k].code)
        /\ ~(last.type = "restart" /\ Target = rooms[k].code)) =>
         \A c \in 1..BoardSize :
           Get(prev, rooms[k].code).board[c] # "" =>
             rooms[k].room.board[c] = Get(prev, rooms[k].code).board[c]

\* an accepted move by "O" after which the board has two "X" and two "O"
\* and the turn is "X"
C18_Witness ==
  /\ Accepted
  /\ Count(After.board, "X") = 2 /\ Count(After.board, "O") = 2
  /\ After.turn = "X" /\ ~After.gameOver

\* C19: after the handler of a disconnect of a connection (the socket's
\* "close" or "error" event) the connection is in no slot and has no symbol
\* in any room of the registry.
C19_DisconnectedIsGone ==
  last.type \in {"close", "error"} =>
    \A k \in 1..Len(rooms) :
      /\ ~Includes(rooms[k].room, last.ws)
      /\ last.ws \notin DOMAIN rooms[k].room.symbols

\* a create added one room under a code that was not a key and left every
\* room that was there as it was, in its place
CreateAddsOnly ==
  /\ ~Has(prev, last.code)
  /\ Len(rooms) = Len(prev) + 1
  /\ \A k \in 1..Len(prev) : rooms[k] = prev[k]
  /\ rooms[Len(rooms)].code = last.code

\* the connections in the slots of the rooms other than the one named
OccupantsElsewhere ==
  UNION {Occupants(rooms[k].room) : k \in {j \in 1..Len(rooms) : rooms[j].code # Target}}

\* C20 as stated: a create adds a room under a code that is not live and
\* alters no room; a join, move or restart leaves every room but the named
\* one unchanged and sends no message to a connection in a slot of another
\* room.
C20_NoMessageToOtherRooms ==
  /\ last.type = "create" => CreateAddsOnly
  /\ last.type \in {"join", "move", "restart"} =>
       /\ OthersUnchanged
       /\ \A k \in 1..Len(out) : out[k].to \notin OccupantsElsewhere

\* C20, amended: a create adds a room under a code that is not live and
\* alters no room; a join, move or restart leaves every room but the named
\* one unchanged and sends messages only to the requester and to the
\* connections in the slots of the named room.
C20_RoomIsolation ==
  /\ last.type = "create" => CreateAddsOnly
  /\ last.type \in {"join", "move", "restart"} =>
       /\ OthersUnchanged
       /\ \A k \in 1..Len(out) :
            \/ out[k].to = last.ws
            \/ Has(rooms, Target) /\ Includes(After, out[k].to)

\* a move accepted in a room with two players while a third connection is
\* alone in the other room: both players are sent the state, the third
\* connection nothing
C20_Witness ==
  /\ Accepted
  /\ Len(rooms) = 2
  /\ Len(out) = 2
  /\ \E c \in OccupantsElsewhere : status[c] = "OPEN" /\ ~Includes(After, c)

====
